---- MODULE Spec2Model ----
(***************************************************************************)
(* A model of pipe_util.c: the stage connector (pipe_connect and its       *)
(* worker process_pipe), the fan-out/fan-in builder (pipe_parallel), the   *)
(* linear pipeline builder (pipe_pipeline / va_pipe_pipeline) and the      *)
(* thread-handle cleanup (pipe_connect_free, pipe_handles_free).           *)
(*                                                                         *)
(* The queue primitive (pipe_new, pipe_free, pipe_producer_new, ...) is    *)
(* not part of pipe_util.c; it is modelled from its interface: a FIFO      *)
(* buffer with a producer and a consumer reference count, where the pipe_t *)
(* handle returned by pipe_new holds one reference of each kind until      *)
(* pipe_free.                                                              *)
(***************************************************************************)
EXTENDS Integers, Sequences, FiniteSets, Bags, TLC

\* ------------------------------------------------------------- bounds
\* largest instance count handed to pipe_parallel
MaxInstances == 2
\* largest number of stage descriptors handed to pipe_pipeline
MaxStages == 2
\* largest number of elements the caller feeds in
MaxInput == 2

\* ---------------------------------------------------------- constants
DEFAULT_BUFFER_SIZE == 128

NULL == 0

\* the constructing (calling) thread, as the owner of an endpoint; workers are 1, 2, ...
Caller == 0

\* "next element size" of a stage descriptor: 0 (the sink rule) or sizeof(int)
Sizes == {0, 4}

Procs == {"identity", "increment"}

Platforms == {"win32", "pthreads"}

\* how many handles the caller's registry may hold before pipe_pipeline is
\* called
PriorCounts == {0, 1}

\* the handles of n threads of an earlier pipeline, all of which have returned
PriorHandles(n) == [i \in 1 .. n |-> 0 - i]

\* a null pipe_processor_t
NullProc == "NULL"

VARIABLES
    platform,     \* which branch of #ifdef _WIN32 the build took
    mode,         \* what the caller calls: "connect" (pipe_connect itself),
                  \* "parallel" or "pipeline"
    descs,        \* "pipeline": the descriptors the caller passes
    grown,        \* "pipeline": how many growths of the registry succeeded
    prior,        \* "pipeline": how many handles the registry holds beforehand
    cargs,        \* "connect": which of in, proc, out the caller passes as NULL
    proc,         \* the processing function handed to the builder
    withHandles,  \* whether the caller supplies a registry (handles != NULL, count != NULL)
    input,        \* the elements the caller is going to push
    args,         \* pipe_pipeline: the stage descriptors still in the va_list
    instances,    \* pipe_parallel: the loop variable "instances"
    queues,       \* every pipe_t created so far
    eps,          \* every producer / consumer endpoint created so far
    workers,      \* every thread created by pipe_connect
    threads,      \* pipe_parallel: the local array "threads"
    handles,      \* the caller's THREAD_HANDLE* variable
    count,        \* the caller's int count
    ret,          \* result_so_far / the returned pipeline_t
    bpc,          \* position of the constructing thread inside the builder
    toPush,       \* what the caller still has to push
    received,     \* what the caller popped from ret.out so far
    callerEos,    \* the caller's pop on ret.out returned 0
    hf            \* position of the caller inside pipe_handles_free

vars == <<platform, mode, descs, grown, prior, cargs, proc, withHandles, input,
          args, instances, queues, eps,
          workers, threads, handles, count, ret, bpc, toPush, received,
          callerEos, hf>>

params == <<platform, mode, descs, prior, cargs, proc, withHandles, input>>

\* ------------------------------------------------------------ helpers
Min(a, b) == IF a < b THEN a ELSE b

RECURSIVE SeqsUpTo(_, _)
SeqsUpTo(S, n) ==
    IF n = 0 THEN {<<>>}
    ELSE LET shorter == SeqsUpTo(S, n - 1)
         IN  shorter \cup {Append(s, x) : s \in {t \in shorter : Len(t) = n - 1}, x \in S}

RECURSIVE BagOfSeq(_)
BagOfSeq(s) ==
    IF s = <<>> THEN EmptyBag ELSE BagOfSeq(Tail(s)) (+) SetToBag({Head(s)})

\* what the caller feeds in: the first n of the elements 0, 1, 2, ... (all
\* different, so that a lost, repeated or reordered element shows)
Inputs == {[i \in 1 .. n |-> i - 1] : n \in 0 .. MaxInput}

\* a THREAD_HANDLE array: the null pointer, or storage holding arr
NullArray == [null |-> TRUE, arr |-> <<>>]

Array(a) == [null |-> FALSE, arr |-> a]

\* ---------------------------------------------------- queue primitive
\* The heap the queue operations act on: s.queues and s.eps (and s.workers,
\* which pipe_connect extends).
Heap == [queues |-> queues, eps |-> eps, workers |-> workers]

\* pipe_new(elem_size, limit): a queue that holds at most limit elements, any
\* number when limit is 0; the pipe_t handle counts as one producer and one
\* consumer until pipe_free.
PipeNewLimit(s, limit) ==
    [s EXCEPT !.queues = Append(@, [buf |-> <<>>, prod |-> 1, cons |-> 1,
                                    handle |-> TRUE, limit |-> limit])]

\* PipeNew with a limit of one element
PipeNewBounded(s) == PipeNewLimit(s, 1)

\* pipe_new(elem_size, 0), as every builder calls it: an unbounded queue
PipeNew(s) == PipeNewLimit(s, 0)

\* the pipe_t created last
LastPipe(s) == Len(s.queues)

\* pipe_free(p): drops the handle's producer and consumer reference
PipeFree(s, q) ==
    [s EXCEPT !.queues[q].prod = @ - 1, !.queues[q].cons = @ - 1, !.queues[q].handle = FALSE]

\* pipe_producer_new(p): a fresh producer endpoint, owned by the constructing thread
PipeProducerNew(s, q) ==
    [s EXCEPT !.queues[q].prod = @ + 1,
              !.eps = Append(@, [q |-> q, kind |-> "prod", owner |-> Caller, live |-> TRUE])]

\* pipe_consumer_new(p)
PipeConsumerNew(s, q) ==
    [s EXCEPT !.queues[q].cons = @ + 1,
              !.eps = Append(@, [q |-> q, kind |-> "cons", owner |-> Caller, live |-> TRUE])]

\* the endpoint created last
LastEp(s) == Len(s.eps)

\* pipe_producer_free(e)
PipeProducerFree(s, e) ==
    [s EXCEPT !.queues[s.eps[e].q].prod = @ - 1, !.eps[e].live = FALSE]

\* pipe_consumer_free(e)
PipeConsumerFree(s, e) ==
    [s EXCEPT !.queues[s.eps[e].q].cons = @ - 1, !.eps[e].live = FALSE]

\* pipe_push(e, elems, n): the queue is unbounded, a push never blocks
PipePush(s, e, elems) ==
    [s EXCEPT !.queues[s.eps[e].q].buf = @ \o elems]

\* pipe_push of n elements returns: it waits while a bounded queue lacks room
CanPush(s, e, n) ==
    LET cq == s.queues[s.eps[e].q]
    IN  cq.limit = 0 \/ Len(cq.buf) + n <= cq.limit

\* pipe_pop(e, buf, max): the possible return values. Blocks (no value) while
\* the queue is empty and a producer reference is left; 0 once it is empty
\* and no producer reference is left.
PopOutcomes(s, e, max) ==
    LET pq == s.queues[s.eps[e].q]
    IN  IF Len(pq.buf) > 0 THEN 1 .. Min(Len(pq.buf), max)
        ELSE IF pq.prod = 0 THEN {0}
        ELSE {}

\* the elements a pop returning n copies out, and the heap afterwards
Popped(s, e, n) == SubSeq(s.queues[s.eps[e].q].buf, 1, n)

PipePop(s, e, n) ==
    [s EXCEPT !.queues[s.eps[e].q].buf = SubSeq(@, n + 1, Len(@))]

\* a queue's storage is gone once no reference of either kind is left
Deallocated(q) == queues[q].prod = 0 /\ queues[q].cons = 0

\* --------------------------------------------- processing functions
\* What a processing function pushes to its output for one batch.
Run(p, batch) ==
    IF p = "identity" THEN batch
    ELSE [i \in 1 .. Len(batch) |-> batch[i] + 1]

\* ------------------------------------------------------ pipe_connect
\* A worker remembers the arguments of its latest call of the processing
\* function (buf is "buf", the scratch buffer, or "NULL") and how many
\* end-of-stream calls it made; NoCall: it has not called it yet.
NoCall == [buf |-> "none", count |-> 0, out |-> NULL, aux |-> NULL]

\* PipeConnectAsserts without assert(proc)
PipeConnectAssertsNoProc(in, p, out) == in # NULL /\ out # NULL

\* assert(in); assert(out); assert(proc): whether pipe_connect gets past them
PipeConnectAsserts(in, p, out) == in # NULL /\ out # NULL /\ p # NullProc

\* pipe_connect(in, proc, aux, out, &handle): copies the four arguments into a
\* connect_data_t and starts a thread on process_pipe; the two endpoints now
\* belong to that thread. The new thread's handle is Len(workers).
PipeConnect(s, in, p, aux, out) ==
    LET t == Len(s.workers) + 1
    IN  [s EXCEPT !.workers = Append(@, [in |-> in, proc |-> p, aux |-> aux, out |-> out,
                                         pc |-> "pop", buf |-> <<>>, call |-> NoCall, eosCalls |-> 0]),
                  !.eps[in].owner = t,
                  !.eps[out].owner = t]

\* the handle pipe_connect stored through its last argument
LastThread(s) == Len(s.workers)

\* ------------------------------------------------------ process_pipe
\* while((elems_read = pipe_pop(p.in, buf, DEFAULT_BUFFER_SIZE)))
WorkerPop(w) ==
    /\ workers[w].pc = "pop"
    /\ \E n \in PopOutcomes(Heap, workers[w].in, DEFAULT_BUFFER_SIZE) :
          /\ queues' = PipePop(Heap, workers[w].in, n).queues
          /\ workers' = [workers EXCEPT
                            ![w].buf = Popped(Heap, workers[w].in, n),
                            ![w].pc = IF n = 0 THEN "eos" ELSE "proc"]
    /\ UNCHANGED <<params, grown, args, instances, eps, threads, handles, count,
                   ret, bpc, toPush, received, callerEos, hf>>

\* WorkerProc with an off-by-one batch count: p.proc(buf, elems_read - 1, ...)
WorkerProcShort(w) ==
    /\ workers[w].pc = "proc"
    /\ queues' = PipePush(Heap, workers[w].out,
                          Run(workers[w].proc,
                              SubSeq(workers[w].buf, 1, Len(workers[w].buf) - 1))).queues
    /\ workers' = [workers EXCEPT
                      ![w].call = [buf |-> "buf", count |-> Len(workers[w].buf) - 1,
                                   out |-> workers[w].out, aux |-> workers[w].aux],
                      ![w].buf = <<>>,
                      ![w].pc = "pop"]
    /\ UNCHANGED <<params, grown, args, instances, eps, threads, handles, count,
                   ret, bpc, toPush, received, callerEos, hf>>

\* WorkerProc under if(...) instead of while(...): after one batch the worker
\* goes on to its end-of-stream call
WorkerProcOnce(w) ==
    /\ workers[w].pc = "proc"
    /\ queues' = PipePush(Heap, workers[w].out, Run(workers[w].proc, workers[w].buf)).queues
    /\ workers' = [workers EXCEPT
                      ![w].call = [buf |-> "buf", count |-> Len(workers[w].buf),
                                   out |-> workers[w].out, aux |-> workers[w].aux],
                      ![w].buf = <<>>,
                      ![w].pc = "eos"]
    /\ UNCHANGED <<params, grown, args, instances, eps, threads, handles, count,
                   ret, bpc, toPush, received, callerEos, hf>>

\* WorkerProc that runs the processing function twice on the batch it popped
WorkerProcTwice(w) ==
    /\ workers[w].pc = "proc"
    /\ queues' = PipePush(Heap, workers[w].out,
                          Run(workers[w].proc, workers[w].buf)
                              \o Run(workers[w].proc, workers[w].buf)).queues
    /\ workers' = [workers EXCEPT
                      ![w].call = [buf |-> "buf", count |-> Len(workers[w].buf),
                                   out |-> workers[w].out, aux |-> workers[w].aux],
                      ![w].buf = <<>>,
                      ![w].pc = "pop"]
    /\ UNCHANGED <<params, grown, args, instances, eps, threads, handles, count,
                   ret, bpc, toPush, received, callerEos, hf>>

\* p.proc(buf, elems_read, p.out, p.aux)
WorkerProc(w) ==
    /\ workers[w].pc = "proc"
    /\ CanPush(Heap, workers[w].out, Len(Run(workers[w].proc, workers[w].buf)))
    /\ queues' = PipePush(Heap, workers[w].out, Run(workers[w].proc, workers[w].buf)).queues
    /\ workers' = [workers EXCEPT
                      ![w].call = [buf |-> "buf", count |-> Len(workers[w].buf),
                                   out |-> workers[w].out, aux |-> workers[w].aux],
                      ![w].buf = <<>>,
                      ![w].pc = "pop"]
    /\ UNCHANGED <<params, grown, args, instances, eps, threads, handles, count,
                   ret, bpc, toPush, received, callerEos, hf>>

\* WorkerEos that hands the real producer endpoint to the end-of-stream call:
\* p.proc(NULL, 0, p.out, p.aux)
WorkerEosWithOut(w) ==
    /\ workers[w].pc = "eos"
    /\ LET gi == PipeConsumerFree(Heap, workers[w].in)
       IN  queues' = gi.queues /\ eps' = gi.eps
    /\ workers' = [workers EXCEPT
                      ![w].call = [buf |-> "NULL", count |-> 0, out |-> workers[w].out,
                                   aux |-> workers[w].aux],
                      ![w].eosCalls = @ + 1,
                      ![w].pc = "free_out"]
    /\ UNCHANGED <<params, grown, args, instances, threads, handles, count, ret,
                   bpc, toPush, received, callerEos, hf>>

\* p.proc(NULL, 0, NULL, p.aux); free(buf); pipe_consumer_free(p.in)
WorkerEos(w) ==
    /\ workers[w].pc = "eos"
    /\ LET fi == PipeConsumerFree(Heap, workers[w].in)
       IN  queues' = fi.queues /\ eps' = fi.eps
    /\ workers' = [workers EXCEPT
                      ![w].call = [buf |-> "NULL", count |-> 0, out |-> NULL,
                                   aux |-> workers[w].aux],
                      ![w].eosCalls = @ + 1,
                      ![w].pc = "free_out"]
    /\ UNCHANGED <<params, grown, args, instances, threads, handles, count, ret,
                   bpc, toPush, received, callerEos, hf>>

\* WorkerFreeOut that returns without pipe_producer_free(p.out)
WorkerFreeOutLeak(w) ==
    /\ workers[w].pc = "free_out"
    /\ workers' = [workers EXCEPT ![w].pc = "done"]
    /\ UNCHANGED <<params, grown, args, instances, queues, eps, threads,
                   handles, count, ret, bpc, toPush, received, callerEos, hf>>

\* WorkerFreeOut with pipe_consumer_free(p.in) written a second time in place
\* of pipe_producer_free(p.out)
WorkerFreeOutFreesIn(w) ==
    /\ workers[w].pc = "free_out"
    /\ LET fi == PipeConsumerFree(Heap, workers[w].in)
       IN  queues' = fi.queues /\ eps' = fi.eps
    /\ workers' = [workers EXCEPT ![w].pc = "done"]
    /\ UNCHANGED <<params, grown, args, instances, threads, handles, count, ret,
                   bpc, toPush, received, callerEos, hf>>

\* pipe_producer_free(p.out); return NULL
WorkerFreeOut(w) ==
    /\ workers[w].pc = "free_out"
    /\ LET fo == PipeProducerFree(Heap, workers[w].out)
       IN  queues' = fo.queues /\ eps' = fo.eps
    /\ workers' = [workers EXCEPT ![w].pc = "done"]
    /\ UNCHANGED <<params, grown, args, instances, threads, handles, count, ret,
                   bpc, toPush, received, callerEos, hf>>

ProcessPipe(w) ==
    /\ bpc # "crashed"
    /\ \/ WorkerPop(w)
       \/ WorkerProc(w)
       \/ WorkerEos(w)
       \/ WorkerFreeOut(w)

\* ------------------------------------------- pipe_connect, called directly
\* the caller's two queues
ConnIn == 1

ConnOut == 2

\* The caller makes two queues, keeps a producer endpoint of the first and a
\* consumer endpoint of the second (its ret), makes a consumer endpoint of the
\* first and a producer endpoint of the second for the stage, and frees both
\* pipe_t handles.
ConnectSetup(s) ==
    LET d1 == PipeProducerNew(PipeNew(PipeNew(s)), ConnIn)
        d2 == PipeConsumerNew(d1, ConnIn)
        d3 == PipeProducerNew(d2, ConnOut)
        d4 == PipeConsumerNew(d3, ConnOut)
    IN  PipeFree(PipeFree(d4, ConnIn), ConnOut)

\* the endpoints that setup makes, in the order it makes them
ConnRetIn == 1

ConnStageIn == 2

ConnStageOut == 3

ConnRetOut == 4

\* pipe_connect(in, proc, aux, out, handle) called by the caller, any of in,
\* proc, out possibly NULL, handle NULL when the caller keeps no handle: a
\* failed assert aborts the process; otherwise the thread is created and
\* *handle = t when handle != NULL (the caller's handle is its one-entry
\* registry)
PipeConnectCall ==
    /\ mode = "connect" /\ bpc = "start"
    /\ LET e0 == ConnectSetup(Heap)
           ain == IF cargs.inNull THEN NULL ELSE ConnStageIn
           aout == IF cargs.outNull THEN NULL ELSE ConnStageOut
           aproc == IF cargs.procNull THEN NullProc ELSE proc
       IN  IF PipeConnectAsserts(ain, aproc, aout)
           THEN LET e1 == PipeConnect(e0, ain, aproc, NULL, aout)
                IN  /\ queues' = e1.queues /\ eps' = e1.eps /\ workers' = e1.workers
                    /\ handles' = IF withHandles THEN Array(<<LastThread(e1)>>) ELSE handles
                    /\ ret' = [in |-> ConnRetIn, out |-> ConnRetOut]
                    /\ bpc' = "done"
           ELSE /\ queues' = e0.queues /\ eps' = e0.eps
                /\ bpc' = "aborted"
                /\ UNCHANGED <<workers, handles, ret>>
    /\ UNCHANGED <<params, grown, args, instances, threads, count, toPush,
                   received, callerEos, hf>>

\* ----------------------------------------------------- pipe_parallel
\* the local pipe_t* in and out: the first two queues created
ParIn == 1

ParOut == 2

\* pipe_t* in = pipe_new(in_size, 0), * out = pipe_new(out_size, 0);
\* THREAD_HANDLE* threads = malloc(instances * sizeof(*threads)); count = 0
\* (malloc(0) may return the null pointer or storage of no size)
ParallelStart ==
    /\ mode = "parallel" /\ bpc = "start"
    /\ queues' = PipeNew(PipeNew(Heap)).queues
    /\ \E isNull \in (IF instances = 0 THEN BOOLEAN ELSE {FALSE}) :
          threads' = IF isNull THEN NullArray ELSE Array(<<>>)
    /\ bpc' = "loop"
    /\ UNCHANGED <<params, grown, args, instances, eps, workers, handles, count,
                   ret, toPush, received, callerEos, hf>>

\* ParallelLoop with pipe_consumer_new(in) hoisted out of the loop: every
\* instance after the first is given the first one's consumer endpoint
ParallelLoopSharedIn ==
    /\ mode = "parallel" /\ bpc = "loop" /\ instances > 0
    /\ LET a1 == IF workers = <<>> THEN PipeConsumerNew(Heap, ParIn) ELSE Heap
           ain == IF workers = <<>> THEN LastEp(a1) ELSE workers[1].in
           a2 == PipeProducerNew(a1, ParOut)
           a3 == PipeConnect(a2, ain, proc, NULL, LastEp(a2))
       IN  /\ queues' = a3.queues /\ eps' = a3.eps /\ workers' = a3.workers
           /\ threads' = [threads EXCEPT !.arr = Append(@, LastThread(a3))]
    /\ instances' = instances - 1
    /\ UNCHANGED <<params, grown, args, handles, count, ret, bpc, toPush,
                   received, callerEos, hf>>

\* ParallelLoop with pipe_producer_new(out) hoisted out of the loop: every
\* instance after the first is given the first one's producer endpoint
ParallelLoopSharedOut ==
    /\ mode = "parallel" /\ bpc = "loop" /\ instances > 0
    /\ LET b1 == PipeConsumerNew(Heap, ParIn)
           b2 == IF workers = <<>> THEN PipeProducerNew(b1, ParOut) ELSE b1
           bout == IF workers = <<>> THEN LastEp(b2) ELSE workers[1].out
           b3 == PipeConnect(b2, LastEp(b1), proc, NULL, bout)
       IN  /\ queues' = b3.queues /\ eps' = b3.eps /\ workers' = b3.workers
           /\ threads' = [threads EXCEPT !.arr = Append(@, LastThread(b3))]
    /\ instances' = instances - 1
    /\ UNCHANGED <<params, grown, args, handles, count, ret, bpc, toPush,
                   received, callerEos, hf>>

\* one iteration of while(instances--): a fresh consumer of in and a fresh
\* producer of out go to a new worker, whose handle is stored at threads[count++]
ParallelLoop ==
    /\ mode = "parallel" /\ bpc = "loop" /\ instances > 0
    /\ LET l1 == PipeConsumerNew(Heap, ParIn)
           l2 == PipeProducerNew(l1, ParOut)
           l3 == PipeConnect(l2, LastEp(l1), proc, NULL, LastEp(l2))
       IN  /\ queues' = l3.queues /\ eps' = l3.eps /\ workers' = l3.workers
           /\ threads' = [threads EXCEPT !.arr = Append(@, LastThread(l3))]
    /\ instances' = instances - 1
    /\ UNCHANGED <<params, grown, args, handles, count, ret, bpc, toPush,
                   received, callerEos, hf>>

\* ParallelFinish without pipe_free(out)
ParallelFinishKeepOut ==
    /\ mode = "parallel" /\ bpc = "loop" /\ instances = 0
    /\ LET g1 == PipeProducerNew(Heap, ParIn)
           g2 == PipeConsumerNew(g1, ParOut)
           g3 == PipeFree(g2, ParIn)
       IN  /\ queues' = g3.queues /\ eps' = g3.eps
           /\ ret' = [in |-> LastEp(g1), out |-> LastEp(g2)]
    /\ handles' = IF withHandles THEN threads ELSE handles
    /\ threads' = NullArray
    /\ bpc' = "done"
    /\ UNCHANGED <<params, grown, args, instances, workers, count, toPush,
                   received, callerEos, hf>>

\* after the loop: ret = {producer_new(in), consumer_new(out)}; pipe_free(in);
\* pipe_free(out); *handles = threads, or free(threads)
ParallelFinish ==
    /\ mode = "parallel" /\ bpc = "loop" /\ instances = 0
    /\ LET f1 == PipeProducerNew(Heap, ParIn)
           f2 == PipeConsumerNew(f1, ParOut)
           f3 == PipeFree(PipeFree(f2, ParIn), ParOut)
       IN  /\ queues' = f3.queues /\ eps' = f3.eps
           /\ ret' = [in |-> LastEp(f1), out |-> LastEp(f2)]
    /\ handles' = IF withHandles THEN threads ELSE handles
    /\ threads' = NullArray
    /\ bpc' = "done"
    /\ UNCHANGED <<params, grown, args, instances, workers, count, toPush,
                   received, callerEos, hf>>

PipeParallel == ParallelStart \/ ParallelLoop \/ ParallelFinish

\* ----------------------------------------------------- pipe_pipeline
\* the pipe_t* p of pipe_pipeline: the first queue created
FirstPipe == 1

\* pipe_trivial_pipeline(p): {.in = pipe_producer_new(p), .out = pipe_consumer_new(p)}
PipeTrivialPipeline(s, p) == PipeConsumerNew(PipeProducerNew(s, p), p)

\* pipe_t* p = pipe_new(first_size, 0); va_pipe_pipeline(count, handles,
\* pipe_trivial_pipeline(p), va) is entered
PipelineStart ==
    /\ mode = "pipeline" /\ bpc = "start"
    /\ LET t1 == PipeTrivialPipeline(PipeNew(Heap), FirstPipe)
       IN  /\ queues' = t1.queues /\ eps' = t1.eps
           /\ ret' = [in |-> LastEp(t1) - 1, out |-> LastEp(t1)]
    /\ bpc' = "va"
    /\ UNCHANGED <<params, grown, args, instances, workers, threads, handles,
                   count, toPush, received, callerEos, hf>>

\* va_pipe_pipeline: proc == NULL, the sentinel: return result_so_far
VaSentinel ==
    /\ mode = "pipeline" /\ bpc = "va"
    /\ args = <<>>
    /\ bpc' = "ret"
    /\ UNCHANGED <<params, grown, args, instances, queues, eps, workers,
                   threads, handles, count, ret, toPush, received, callerEos,
                   hf>>

\* VaSink that makes result_so_far.out NULL without releasing the endpoint
VaSinkNoFree ==
    /\ mode = "pipeline" /\ bpc = "va"
    /\ args # <<>> /\ Head(args).size = 0
    /\ ret' = [ret EXCEPT !.out = NULL]
    /\ bpc' = "ret"
    /\ UNCHANGED <<params, grown, args, instances, queues, eps, workers,
                   threads, handles, count, toPush, received, callerEos, hf>>

\* va_pipe_pipeline: pipe_size == 0: release result_so_far.out, make it NULL, return
VaSink ==
    /\ mode = "pipeline" /\ bpc = "va"
    /\ args # <<>> /\ Head(args).size = 0
    /\ LET k1 == PipeConsumerFree(Heap, ret.out)
       IN  queues' = k1.queues /\ eps' = k1.eps
    /\ ret' = [ret EXCEPT !.out = NULL]
    /\ bpc' = "ret"
    /\ UNCHANGED <<params, grown, args, instances, workers, threads, handles,
                   count, toPush, received, callerEos, hf>>

\* Grown that copies the handle to slot 0 after moving the others up by one
GrownFront(h, c, handle) ==
    Array([i \in 1 .. c + 1 |-> IF i = 1 THEN handle ELSE h.arr[i - 1]])

\* realloc(*handles, new_count * sizeof(*handles)) succeeded and the handle
\* was copied to slot *count
Grown(h, c, handle) ==
    Array([i \in 1 .. c + 1 |-> IF i = c + 1 THEN handle ELSE h.arr[i]])

\* VaStage without result_so_far.out = pipe_consumer_new(pipe): the consumer
\* end stays the endpoint that was handed to the worker
VaStageNoAdvance ==
    /\ mode = "pipeline" /\ bpc = "va"
    /\ args # <<>> /\ Head(args).size # 0
    /\ LET u1 == PipeNew(Heap)
           u2 == PipeProducerNew(u1, LastPipe(u1))
           u3 == PipeConnect(u2, ret.out, Head(args).proc, Head(args).aux, LastEp(u2))
           u5 == PipeFree(u3, LastPipe(u1))
       IN  /\ queues' = u5.queues /\ eps' = u5.eps /\ workers' = u5.workers
           /\ IF withHandles
              THEN \E growOk \in BOOLEAN :
                      IF growOk
                      THEN /\ handles' = Grown(handles, count, LastThread(u3))
                           /\ count' = count + 1 /\ grown' = grown + 1
                      ELSE UNCHANGED <<handles, count, grown>>
              ELSE UNCHANGED <<handles, count, grown>>
    /\ args' = Tail(args)
    /\ UNCHANGED <<params, instances, threads, ret, bpc, toPush, received, callerEos, hf>>

\* VaStage with *handles = realloc(*handles, new_size): a failed growth loses
\* the array
VaStageReallocInPlace ==
    /\ mode = "pipeline" /\ bpc = "va"
    /\ args # <<>> /\ Head(args).size # 0
    /\ LET r1 == PipeNew(Heap)
           r2 == PipeProducerNew(r1, LastPipe(r1))
           r3 == PipeConnect(r2, ret.out, Head(args).proc, Head(args).aux, LastEp(r2))
           r4 == PipeConsumerNew(r3, LastPipe(r1))
           r5 == PipeFree(r4, LastPipe(r1))
       IN  /\ queues' = r5.queues /\ eps' = r5.eps /\ workers' = r5.workers
           /\ ret' = [ret EXCEPT !.out = LastEp(r4)]
           /\ IF withHandles
              THEN \E reallocOk \in BOOLEAN :
                      IF reallocOk
                      THEN /\ handles' = Grown(handles, count, LastThread(r3))
                           /\ count' = count + 1 /\ grown' = grown + 1
                      ELSE /\ handles' = NullArray
                           /\ UNCHANGED <<count, grown>>
              ELSE UNCHANGED <<handles, count, grown>>
    /\ args' = Tail(args)
    /\ UNCHANGED <<params, instances, threads, bpc, toPush, received, callerEos, hf>>

\* va_pipe_pipeline: one stage: a new queue, a worker from result_so_far.out to
\* a fresh producer of it, the handle appended to the registry unless realloc
\* fails, result_so_far.out = a fresh consumer of the new queue, pipe_free of
\* the new queue, and the recursive call
VaStage ==
    /\ mode = "pipeline" /\ bpc = "va"
    /\ args # <<>> /\ Head(args).size # 0
    /\ LET v1 == PipeNew(Heap)
           v2 == PipeProducerNew(v1, LastPipe(v1))
           v3 == PipeConnect(v2, ret.out, Head(args).proc, Head(args).aux, LastEp(v2))
           v4 == PipeConsumerNew(v3, LastPipe(v1))
           v5 == PipeFree(v4, LastPipe(v1))
       IN  /\ queues' = v5.queues /\ eps' = v5.eps /\ workers' = v5.workers
           /\ ret' = [ret EXCEPT !.out = LastEp(v4)]
           /\ IF withHandles
              THEN \E reallocOk \in BOOLEAN :
                      IF reallocOk
                      THEN /\ handles' = Grown(handles, count, LastThread(v3))
                           /\ count' = count + 1 /\ grown' = grown + 1
                      ELSE UNCHANGED <<handles, count, grown>>
              ELSE UNCHANGED <<handles, count, grown>>
    /\ args' = Tail(args)
    /\ UNCHANGED <<params, instances, threads, bpc, toPush, received, callerEos, hf>>

VaPipePipeline == VaSentinel \/ VaSink \/ VaStage

\* PipelineReturn without pipe_free(p)
PipelineReturnKeep ==
    /\ mode = "pipeline" /\ bpc = "ret"
    /\ bpc' = "done"
    /\ UNCHANGED <<params, grown, args, instances, queues, eps, workers,
                   threads, handles, count, ret, toPush, received, callerEos,
                   hf>>

\* pipe_pipeline after va_pipe_pipeline returned: pipe_free(p); return ret
PipelineReturn ==
    /\ mode = "pipeline" /\ bpc = "ret"
    /\ queues' = PipeFree(Heap, FirstPipe).queues
    /\ bpc' = "done"
    /\ UNCHANGED <<params, grown, args, instances, eps, workers, threads,
                   handles, count, ret, toPush, received, callerEos, hf>>

PipePipeline == PipelineStart \/ VaPipePipeline \/ PipelineReturn

\* ---------------------------------------------------------- cleanup
\* thread_destroy(t) returns: CloseHandle(t) on _WIN32 returns at once,
\* pthread_join(t, NULL) returns once the thread has returned
ThreadDestroy(t) ==
    IF platform = "win32" \/ t < 0 THEN TRUE ELSE workers[t].pc = "done"

\* pipe_connect_free(handle) returns
PipeConnectFree(handle) ==
    handle # NULL => ThreadDestroy(handle)

\* pipe_handles_free(count, handles) is called by the caller, for the first
\* time or again after an earlier call returned, with its count and the
\* address of its handles variable (NULL when it keeps no registry):
\* if(!count || !handles) return; THREAD_HANDLE* t = *handles
HandlesFreeCall ==
    /\ bpc = "done" /\ hf.pc \in {"idle", "returned"}
    /\ count = 0 \/ ~withHandles \/ ~handles.null
    /\ hf' = IF count = 0 \/ ~withHandles
             THEN [pc |-> "returned", i |-> 0, t |-> NullArray]
             ELSE [pc |-> "loop", i |-> 0, t |-> handles]
    /\ UNCHANGED <<params, grown, args, instances, queues, eps, workers,
                   threads, handles, count, ret, bpc, toPush, received,
                   callerEos>>

\* pipe_handles_free(count, handles) called with count != 0 and *handles ==
\* NULL: the guard passes, t = NULL, and the first iteration copies a handle
\* from address t + 0. Reading through a null pointer is undefined: the process
\* is killed, or the reads yield values that pipe_connect_free accepts and the
\* call returns after free(NULL) and *handles = NULL.
HandlesFreeNullRead ==
    /\ bpc = "done" /\ hf.pc \in {"idle", "returned"}
    /\ count # 0 /\ withHandles /\ handles.null
    /\ \/ /\ hf' = [pc |-> "crashed", i |-> 0, t |-> NullArray]
          /\ bpc' = "crashed"
       \/ /\ hf' = [pc |-> "returned", i |-> count, t |-> NullArray]
          /\ UNCHANGED bpc
    /\ UNCHANGED <<params, grown, args, instances, queues, eps, workers,
                   threads, handles, count, ret, toPush, received, callerEos>>

\* for(i = 0; i < count; i++) pipe_connect_free(t[i]), up to the next point
\* where it can wait: one iteration where thread_destroy joins, all that are
\* left where it only closes the handle
HandlesFreeLoop ==
    /\ hf.pc = "loop" /\ hf.i < count
    /\ PipeConnectFree(hf.t.arr[hf.i + 1])
    /\ hf' = [hf EXCEPT !.i = IF platform = "win32" THEN count ELSE @ + 1]
    /\ UNCHANGED <<params, grown, args, instances, queues, eps, workers,
                   threads, handles, count, ret, bpc, toPush, received,
                   callerEos>>

\* HandlesFreeReturn that frees the storage and leaves *handles dangling
HandlesFreeReturnKeep ==
    /\ hf.pc = "loop" /\ hf.i >= count
    /\ hf' = [pc |-> "returned", i |-> hf.i, t |-> NullArray]
    /\ UNCHANGED <<params, grown, args, instances, queues, eps, workers,
                   threads, handles, count, ret, bpc, toPush, received,
                   callerEos>>

\* after the loop: free(*handles); *handles = NULL
HandlesFreeReturn ==
    /\ hf.pc = "loop" /\ hf.i >= count
    /\ handles' = NullArray
    /\ hf' = [pc |-> "returned", i |-> hf.i, t |-> NullArray]
    /\ UNCHANGED <<params, grown, args, instances, queues, eps, workers,
                   threads, count, ret, bpc, toPush, received, callerEos>>

PipeHandlesFree ==
    HandlesFreeCall \/ HandlesFreeNullRead \/ HandlesFreeLoop \/ HandlesFreeReturn

\* ----------------------------------------------------------- caller
\* The caller of the builder uses the returned pipeline_t: it pushes its input
\* into ret.in, releases ret.in, pops from ret.out and releases ret.out.
Live(e) == e # NULL /\ eps[e].live

\* pipe_push(ret.in, &x, 1)
CallerPush ==
    /\ bpc = "done" /\ Live(ret.in) /\ toPush # <<>>
    /\ CanPush(Heap, ret.in, 1)
    /\ queues' = PipePush(Heap, ret.in, <<Head(toPush)>>).queues
    /\ toPush' = Tail(toPush)
    /\ UNCHANGED <<params, grown, args, instances, eps, workers, threads,
                   handles, count, ret, bpc, received, callerEos, hf>>

\* pipe_producer_free(ret.in), once everything was pushed
CallerFreeIn ==
    /\ bpc = "done" /\ Live(ret.in) /\ toPush = <<>>
    /\ LET c1 == PipeProducerFree(Heap, ret.in)
       IN  queues' = c1.queues /\ eps' = c1.eps
    /\ UNCHANGED <<params, grown, args, instances, workers, threads, handles,
                   count, ret, bpc, toPush, received, callerEos, hf>>

\* pipe_pop(ret.out, buf, DEFAULT_BUFFER_SIZE)
CallerPop ==
    /\ bpc = "done" /\ Live(ret.out) /\ ~callerEos
    /\ \E n \in PopOutcomes(Heap, ret.out, DEFAULT_BUFFER_SIZE) :
          /\ queues' = PipePop(Heap, ret.out, n).queues
          /\ received' = received \o Popped(Heap, ret.out, n)
          /\ callerEos' = (n = 0)
    /\ UNCHANGED <<params, grown, args, instances, eps, workers, threads,
                   handles, count, ret, bpc, toPush, hf>>

\* pipe_consumer_free(ret.out)
CallerFreeOut ==
    /\ bpc = "done" /\ Live(ret.out)
    /\ LET c2 == PipeConsumerFree(Heap, ret.out)
       IN  queues' = c2.queues /\ eps' = c2.eps
    /\ UNCHANGED <<params, grown, args, instances, workers, threads, handles,
                   count, ret, bpc, toPush, received, callerEos, hf>>

CallerStep == CallerPush \/ CallerFreeIn \/ CallerPop \/ CallerFreeOut

\* ------------------------------------------------------ specification
\* the stage descriptors (proc, aux, next size) for a list of sizes; the aux of
\* stage i is i
Descriptors(sizes) ==
    [i \in 1 .. Len(sizes) |-> [proc |-> proc, aux |-> i, size |-> sizes[i]]]

NoNullArgs == [inNull |-> FALSE, procNull |-> FALSE, outNull |-> FALSE]

\* Before the builder is called: nothing exists yet. For pipe_parallel the
\* caller's count is the instance count it asks for; for pipe_pipeline the
\* registry is empty (count 0, handles NULL) or holds the handles of an earlier
\* pipeline; for pipe_connect the caller's count is 1 when it keeps the handle.
\* The build variant matters only to a caller with a registry (thread_destroy
\* is reached from pipe_handles_free alone). The fan-out group runs the
\* identity function, the chain the increment function, a directly connected
\* stage either.
Init ==
    /\ withHandles \in BOOLEAN
    /\ platform \in (IF withHandles THEN Platforms ELSE {"pthreads"})
    /\ mode \in {"connect", "parallel", "pipeline"}
    /\ input \in Inputs
    /\ toPush = input
    /\ grown = 0
    /\ \/ /\ mode = "connect"
          /\ proc \in Procs
          /\ descs = <<>>
          /\ prior = 0 /\ handles = NullArray
          /\ cargs \in [inNull : BOOLEAN, procNull : BOOLEAN, outNull : BOOLEAN]
          /\ instances = 0
          /\ count = IF withHandles THEN 1 ELSE 0
          /\ args = <<>>
       \/ /\ mode = "parallel"
          /\ proc = "identity"
          /\ descs = <<>>
          /\ prior = 0 /\ handles = NullArray
          /\ cargs = NoNullArgs
          /\ instances \in 0 .. MaxInstances
          /\ count = instances
          /\ args = <<>>
       \/ /\ mode = "pipeline"
          /\ proc = "increment"
          /\ cargs = NoNullArgs
          /\ prior \in (IF withHandles THEN PriorCounts ELSE {0})
          /\ handles = IF prior = 0 THEN NullArray ELSE Array(PriorHandles(prior))
          /\ instances = 0
          /\ count = prior
          /\ \E sizes \in SeqsUpTo(Sizes, MaxStages) : descs = Descriptors(sizes)
          /\ args = descs
    /\ queues = <<>>
    /\ eps = <<>>
    /\ workers = <<>>
    /\ threads = NullArray
    /\ ret = [in |-> NULL, out |-> NULL]
    /\ bpc = "start"
    /\ received = <<>>
    /\ callerEos = FALSE
    /\ hf = [pc |-> "idle", i |-> 0, t |-> NullArray]

Next ==
    \/ PipeConnectCall
    \/ PipeParallel
    \/ PipePipeline
    \/ \E w \in 1 .. Len(workers) : ProcessPipe(w)
    \/ CallerStep
    \/ PipeHandlesFree

Spec == Init /\ [][Next]_vars

\* A linear pipeline on its own: the caller builds with pipe_pipeline, feeds
\* and drains it, and leaves the thread handles alone (pipe_handles_free
\* touches neither queues nor endpoints nor workers). Fair scheduling: every
\* worker thread that can take a step eventually takes one, the constructing
\* thread finishes the builder, and the caller keeps popping from the consumer
\* end while it holds it.
Worker(w) == w <= Len(workers) /\ ProcessPipe(w)

ChainInit == Init /\ mode = "pipeline" /\ prior = 0

ChainNext ==
    \/ PipePipeline
    \/ \E w \in 1 .. Len(workers) : ProcessPipe(w)
    \/ CallerStep

ChainFairSpec ==
    /\ ChainInit /\ [][ChainNext]_vars
    /\ WF_vars(PipePipeline)
    /\ \A w \in 1 .. MaxStages : WF_vars(Worker(w))
    /\ WF_vars(CallerPop)

\* A chain or a fan-out group with its registry, never read: the caller builds
\* with pipe_pipeline or pipe_parallel, feeds it, never pops, releases its
\* endpoints when it likes and calls pipe_handles_free once. Fair scheduling:
\* every worker thread that can take a step eventually takes one, the
\* constructing thread finishes the builder, and a pipe_handles_free that was
\* called goes on whenever its join returns. Nothing is assumed of the caller.
\* The build is the one whose thread_destroy waits for the thread.
MaxWorkers == IF MaxInstances > MaxStages THEN MaxInstances ELSE MaxStages

HandlesFreeFirst == hf.pc = "idle" /\ HandlesFreeCall

HandlesFreeRun == HandlesFreeLoop \/ HandlesFreeReturn

DrainInit ==
    /\ Init /\ mode \in {"parallel", "pipeline"}
    /\ withHandles /\ prior = 0 /\ platform = "pthreads"

DrainNext ==
    \/ PipeParallel
    \/ PipePipeline
    \/ \E w \in 1 .. Len(workers) : ProcessPipe(w)
    \/ CallerPush \/ CallerFreeIn \/ CallerFreeOut
    \/ HandlesFreeFirst
    \/ HandlesFreeRun

DrainFairSpec ==
    /\ DrainInit /\ [][DrainNext]_vars
    /\ WF_vars(PipeParallel) /\ WF_vars(PipePipeline)
    /\ \A w \in 1 .. MaxWorkers : WF_vars(Worker(w))
    /\ WF_vars(HandlesFreeRun)

\* ------------------------------------------------------------ claims
\* what the caller has pushed so far
Pushed == SubSeq(input, 1, Len(input) - Len(toPush))

\* every element of s with d added
Shift(s, d) == [i \in 1 .. Len(s) |-> s[i] + d]

\* the builder has returned a pipeline whose consumer end exists
Built == bpc = "done" /\ ret.out # NULL

\* the queue behind an endpoint
QueueOf(e) == queues[eps[e].q]

\* C1: in a linear pipeline of k >= 1 stages, once every producer reference of
\* the input queue is released, the final consumer endpoint eventually reports
\* end-of-stream (as long as the caller keeps that endpoint).
C1_InputClosed ==
    /\ mode = "pipeline" /\ Built /\ Len(workers) >= 1
    /\ queues[FirstPipe].prod = 0

C1_ClosurePropagates ==
    C1_InputClosed ~> (callerEos \/ ~Live(ret.out))

C1_Witness ==
    /\ mode = "pipeline" /\ Built /\ Len(workers) = MaxStages
    /\ queues[FirstPipe].prod = 0
    /\ callerEos /\ Live(ret.out)
    /\ Len(received) = MaxInput

\* C2: one stage connector running the identity function: at every moment the
\* elements read so far, followed by those in the output queue, in the worker's
\* batch and in the input queue, are exactly the elements pushed, in order; and
\* at end-of-stream the caller has read exactly the input.
C2_SingleStage ==
    /\ Built /\ Len(workers) = 1 /\ proc = "identity"

C2_IdentityPreservesSequence ==
    C2_SingleStage =>
        /\ received \o QueueOf(workers[1].out).buf \o workers[1].buf
               \o QueueOf(workers[1].in).buf = Pushed
        /\ callerEos => received = input

C2_Witness ==
    /\ C2_SingleStage /\ callerEos
    /\ Len(received) = MaxInput
    /\ workers[1].call.count = 0 /\ workers[1].pc = "done"

\* C3: fan-out/fan-in with N >= 1 identity workers: at every moment the elements
\* read, in the output queue, in the workers' batches and in the input queue
\* make up exactly the multiset pushed; at end-of-stream the multiset read is
\* the multiset pushed in.
RECURSIVE BatchesBag(_)
BatchesBag(n) ==
    IF n = 0 THEN EmptyBag ELSE BatchesBag(n - 1) (+) BagOfSeq(workers[n].buf)

C3_FanOut ==
    /\ mode = "parallel" /\ bpc = "done" /\ Len(workers) >= 1 /\ proc = "identity"

C3_MultisetPreserved ==
    C3_FanOut =>
        /\ BagOfSeq(received) (+) BagOfSeq(queues[ParOut].buf)
               (+) BatchesBag(Len(workers)) (+) BagOfSeq(queues[ParIn].buf)
             = BagOfSeq(Pushed)
        /\ callerEos => BagOfSeq(received) = BagOfSeq(input)

\* both workers took part and the caller read the elements in another order
C3_Witness ==
    /\ C3_FanOut /\ callerEos /\ Len(workers) = MaxInstances
    /\ Len(received) = MaxInput /\ received # input
    /\ \A w \in 1 .. Len(workers) : workers[w].call.buf = "NULL"

\* C4: a linear pipeline of k incrementing stages: stage i reads queue i and
\* writes queue i + 1; every element is at one place of the chain, having
\* passed the stages before that place once each, in order; at end-of-stream
\* the caller has read the input with k added to every element.
C4_Chain ==
    /\ mode = "pipeline" /\ Built /\ proc = "increment"

RECURSIVE ChainFrom(_)
ChainFrom(j) ==
    IF j = 0 THEN <<>>
    ELSE Shift(queues[j].buf, 1 - j)
            \o (IF j > 1 THEN Shift(workers[j - 1].buf, 2 - j) ELSE <<>>)
            \o ChainFrom(j - 1)

C4_PipelineAddsK ==
    C4_Chain =>
        /\ \A i \in 1 .. Len(workers) :
              /\ eps[workers[i].in].q = i /\ eps[workers[i].in].kind = "cons"
              /\ eps[workers[i].out].q = i + 1 /\ eps[workers[i].out].kind = "prod"
        /\ eps[ret.in].q = FirstPipe /\ eps[ret.out].q = Len(workers) + 1
        /\ Shift(received, 0 - Len(workers)) \o ChainFrom(Len(queues)) = Pushed
        /\ callerEos => received = Shift(input, Len(workers))

C4_Witness ==
    /\ C4_Chain /\ Len(workers) = MaxStages /\ callerEos
    /\ Len(input) = MaxInput
    /\ received = Shift(input, MaxStages)

\* C5: the calls a worker makes to its processing function: while it is in its
\* pop loop every call so far had a batch of 1..128 elements, the worker's own
\* producer endpoint and its aux; once it left the loop it has made exactly one
\* end-of-stream call (NULL, 0, NULL, aux), and that is its latest call.
C5_CallDiscipline ==
    \A w \in 1 .. Len(workers) :
        LET wk == workers[w]
        IN  /\ wk.pc \in {"pop", "proc", "eos"} =>
                  /\ wk.eosCalls = 0
                  /\ \/ wk.call = NoCall
                     \/ /\ wk.call.buf = "buf"
                        /\ wk.call.count >= 1 /\ wk.call.count <= DEFAULT_BUFFER_SIZE
                        /\ wk.call.out = wk.out /\ wk.out # NULL
                        /\ wk.call.aux = wk.aux
            /\ wk.pc \in {"free_out", "done"} =>
                  /\ wk.eosCalls = 1
                  /\ wk.call = [buf |-> "NULL", count |-> 0, out |-> NULL, aux |-> wk.aux]

\* one worker has finished after its end-of-stream call while another is in
\* its loop after a call with a batch of more than one element
C5_Witness ==
    \E w1, w2 \in 1 .. Len(workers) :
        /\ workers[w1].pc = "done" /\ workers[w1].eosCalls = 1
        /\ workers[w2].pc = "pop" /\ workers[w2].call.count = MaxInput

\* a worker has terminated: it made its end-of-stream call, released both its
\* endpoints and returned
Terminated(w) ==
    /\ workers[w].pc = "done"
    /\ workers[w].eosCalls = 1
    /\ ~eps[workers[w].in].live /\ ~eps[workers[w].out].live

\* pipe_handles_free has returned after going through a registry with entries
FreedPopulated == hf.pc = "returned" /\ hf.i > 0

\* C6: when pipe_handles_free returns for the registry of a fan-out build of N
\* workers, every one of the N workers has terminated.
C6_JoinWaitsForWorkers ==
    (mode = "parallel" /\ FreedPopulated) =>
        \A w \in 1 .. Len(workers) : Terminated(w)

\* the same on the pthreads build only, where thread_destroy is pthread_join
C6_JoinWaitsOnPthreads ==
    (mode = "parallel" /\ FreedPopulated /\ platform = "pthreads") =>
        \A w \in 1 .. Len(workers) : Terminated(w)

C6_Witness ==
    /\ mode = "parallel" /\ FreedPopulated /\ platform = "pthreads"
    /\ hf.i = MaxInstances /\ Len(workers) = MaxInstances

\* C7 as claimed: after pipe_handles_free on a populated registry the recorded
\* count is 0 and the handle storage reference is null.
C7_RegistryEmptied ==
    FreedPopulated => (count = 0 /\ handles.null)

\* C7 as the code has it: the handle storage reference is null, and the count,
\* which the call receives by value, still is the number of handles it went
\* through.
C7_HandlesNullCountKept ==
    FreedPopulated => (handles = NullArray /\ count = hf.i)

C7_Witness ==
    /\ FreedPopulated /\ hf.i = MaxInstances /\ mode = "parallel"

\* C8: a stage descriptor with next size 0 (the j-th) ends construction: the
\* consumer end is NULL, the workers are those of the j - 1 descriptors before
\* it and the queues are j (none for it or for a later descriptor), the
\* consumer endpoint of the last queue is released (the only consumer reference
\* that can be left is the pipe_t handle's own, until pipe_free(p)), the
\* producer end is an endpoint of the first queue, live on return, which takes
\* pushes while the caller holds it, and the caller reads nothing back.
C8_SinkHit ==
    /\ mode = "pipeline" /\ bpc \in {"ret", "done"} /\ args # <<>>

C8_SinkTerminates ==
    C8_SinkHit =>
        /\ Head(args).size = 0
        /\ ret.out = NULL
        /\ Len(workers) = Head(args).aux - 1
        /\ \A w \in 1 .. Len(workers) : workers[w].aux < Head(args).aux
        /\ Len(queues) = Head(args).aux
        /\ \A e \in 1 .. Len(eps) :
              (eps[e].q = Len(queues) /\ eps[e].kind = "cons") => ~eps[e].live
        /\ queues[Len(queues)].cons = (IF bpc = "ret" /\ Len(queues) = FirstPipe THEN 1 ELSE 0)
        /\ eps[ret.in].q = FirstPipe /\ eps[ret.in].kind = "prod"
        /\ eps[ret.in].owner = Caller
        /\ bpc = "ret" => Live(ret.in)
        /\ (bpc = "done" /\ Live(ret.in) /\ toPush # <<>>) => ENABLED CallerPush
        /\ received = <<>> /\ ~callerEos /\ ~ENABLED CallerPop

\* the first descriptor is the sink, another follows it, and the caller pushed
\* its whole input
C8_Witness ==
    /\ C8_SinkHit /\ bpc = "done"
    /\ Len(args) = MaxStages /\ Len(workers) = 0
    /\ Len(input) = MaxInput /\ toPush = <<>>
    /\ Len(queues[FirstPipe].buf) = MaxInput

\* C9: pipe_parallel with N = 0 (the caller's count is its N): no worker, the
\* output queue has no producer reference, so a pop on the returned consumer
\* endpoint returns 0 at once, and what is pushed into the returned producer
\* endpoint stays in the input queue.
C9_ZeroInstances ==
    /\ mode = "parallel" /\ count = 0 /\ bpc = "done"

C9_EmptyClosedPipeline ==
    C9_ZeroInstances =>
        /\ Len(workers) = 0
        /\ Len(queues) = ParOut
        /\ queues[ParOut].prod = 0
        /\ Live(ret.out) => PopOutcomes(Heap, ret.out, DEFAULT_BUFFER_SIZE) = {0}
        /\ received = <<>>
        /\ queues[ParIn].buf = Pushed
        /\ queues[ParIn].cons = 0

C9_Witness ==
    /\ C9_ZeroInstances /\ callerEos
    /\ Len(queues[ParIn].buf) = MaxInput /\ toPush = <<>>

\* C10: a single queue wrapped by pipe_trivial_pipeline (pipe_pipeline with no
\* stage): with nothing pushed and the producer endpoint released, the pop on
\* the consumer endpoint does not block and returns 0.
C10_EmptyTrivial ==
    /\ mode = "pipeline" /\ Built /\ Len(queues) = FirstPipe
    /\ input = <<>> /\ ~Live(ret.in) /\ Live(ret.out)

C11_Called == mode = "connect" /\ bpc # "start"

C11_NullArgsFailFast ==
    /\ bpc = "aborted" => mode = "connect"
    /\ C11_Called =>
          /\ bpc = "aborted" <=> (cargs.inNull \/ cargs.procNull \/ cargs.outNull)
          /\ bpc = "aborted" =>
                /\ Len(workers) = 0
                /\ handles = NullArray /\ ret = [in |-> NULL, out |-> NULL]
                /\ \A e \in 1 .. Len(eps) : eps[e].live /\ eps[e].owner = Caller
                /\ \A q \in {ConnIn, ConnOut} :
                      queues[q].prod = 1 /\ queues[q].cons = 1 /\ queues[q].buf = <<>>
          /\ bpc = "done" => Len(workers) = 1

\* aborted on a null proc alone
C11_Witness ==
    /\ C11_Called /\ bpc = "aborted"
    /\ cargs.procNull /\ ~cargs.inNull /\ ~cargs.outNull

\* C12: in pipe_pipeline with a registry, every stage step starts a worker in
\* its pop loop and goes on to the next descriptor, and either appends that
\* worker's handle and adds one to the count or (growth failed) leaves the
\* registry and the count as they were; so the handles appended are those of
\* the stages whose growth succeeded, in order, count of them many; and a
\* pipeline built with a failed growth still delivers every element through
\* all its stages and all its workers terminate.
C12_Registry == mode = "pipeline" /\ withHandles /\ hf.pc \in {"idle", "loop"}

C12_StageStep ==
    (mode = "pipeline" /\ withHandles /\ Len(workers') = Len(workers) + 1) =>
        /\ workers'[Len(workers')].pc = "pop"
        /\ workers'[Len(workers')].aux = Head(args).aux
        /\ args' = Tail(args) /\ bpc' = "va"
        /\ \/ count' = count + 1 /\ handles' = Array(Append(handles.arr, Len(workers')))
           \/ count' = count /\ handles' = handles

C12_GrowthFailed == C12_Registry /\ count - prior < Len(workers)

C12_FailedGrowthSkipsHandle ==
    /\ [](C12_Registry =>
            /\ Len(handles.arr) = count
            /\ \A i \in 1 .. count :
                  /\ i > prior => handles.arr[i] \in 1 .. Len(workers)
                  /\ (i > prior + 1) => handles.arr[i - 1] < handles.arr[i])
    /\ []((C12_GrowthFailed /\ Built /\ callerEos) =>
            /\ received = (IF proc = "increment" THEN Shift(input, Len(workers))
                           ELSE input)
            /\ \A w \in 1 .. Len(workers) : Terminated(w))
    /\ [][C12_StageStep]_vars

\* the first of MaxStages growths failed, the later ones succeeded, and the
\* caller has read the whole input through all the stages
C12_Witness ==
    /\ C12_GrowthFailed /\ Built /\ callerEos
    /\ Len(workers) = MaxStages /\ count - prior = MaxStages - 1
    /\ \A i \in prior + 1 .. count : handles.arr[i] > 1
    /\ Len(input) = MaxInput /\ Len(received) = MaxInput

\* everything but the position of pipe_handles_free
besidesHf ==
    <<params, grown, args, instances, queues, eps, workers, threads, handles, count, ret,
      bpc, toPush, received, callerEos>>

\* pipe_handles_free is not running and would be called on an empty registry
\* (count 0), without a registry (handles == NULL), or on a registry whose
\* array pointer is NULL
C13_EmptyOrNull ==
    /\ bpc = "done" /\ hf.pc \in {"idle", "returned"}
    /\ count = 0 \/ ~withHandles \/ handles.null

\* C13: a call of pipe_handles_free on an empty or null registry, the null
\* array pointer left by an earlier call included, returns at once having
\* joined no thread and changed nothing.
C13_NoOpOnEmptyOrNull ==
    [][(C13_EmptyOrNull /\ hf' # hf) => (hf'.pc = "returned" /\ UNCHANGED besidesHf)]_vars

\* C13, without the null array pointer: a call with count 0 or without a
\* registry returns at once having joined no thread and changed nothing,
\* whatever was built and cleaned up before.
C13_NoOpOnEmptyOrAbsent ==
    [][(bpc = "done" /\ hf.pc \in {"idle", "returned"} /\ (count = 0 \/ ~withHandles)
            /\ hf' # hf)
          => (hf' = [pc |-> "returned", i |-> 0, t |-> NullArray]
                /\ UNCHANGED besidesHf)]_vars

\* a second call on the registry of MaxInstances workers that the first call
\* left with a null array pointer has killed the process
C13_Witness ==
    /\ mode = "parallel" /\ count = MaxInstances /\ handles.null
    /\ hf.pc = "crashed" /\ bpc = "crashed"

\* C14: a worker that has left its pop loop read a queue that holds nothing and
\* has no producer reference left, and its last pop copied nothing out; a
\* worker at pipe_pop on an empty queue that still has a producer reference
\* cannot take a step; and a worker calls its processing function in the loop
\* only with elements it popped.
C14_ExitOnlyWhenExhausted ==
    \A w \in 1 .. Len(workers) :
        /\ workers[w].pc \in {"eos", "free_out", "done"} =>
              /\ QueueOf(workers[w].in).prod = 0
              /\ QueueOf(workers[w].in).buf = <<>>
              /\ workers[w].buf = <<>>
        /\ (/\ workers[w].pc = "pop"
            /\ QueueOf(workers[w].in).buf = <<>>
            /\ QueueOf(workers[w].in).prod > 0) => ~ENABLED ProcessPipe(w)
        /\ workers[w].pc = "proc" => workers[w].buf # <<>>

\* a worker that processed elements has left its loop, while the worker after
\* it waits at pipe_pop on the empty queue the first has not yet released
C14_Witness ==
    \E w1, w2 \in 1 .. Len(workers) :
        /\ workers[w1].pc = "eos" /\ workers[w1].call # NoCall
        /\ workers[w2].pc = "pop" /\ eps[workers[w2].in].q = eps[workers[w1].out].q
        /\ QueueOf(workers[w2].in).buf = <<>> /\ QueueOf(workers[w2].in).prod = 1
        /\ ~ENABLED ProcessPipe(w2)

\* the live endpoints of one kind on queue q
LiveEps(q, kind) ==
    {e \in 1 .. Len(eps) : eps[e].q = q /\ eps[e].kind = kind /\ eps[e].live}

\* the references of one kind that are outstanding on queue q: the pipe_t
\* handle, until pipe_free, and the live endpoints
Outstanding(q, kind) ==
    (IF queues[q].handle THEN 1 ELSE 0) + Cardinality(LiveEps(q, kind))

\* a step releases endpoints only of the thread that takes it: an endpoint of
\* worker w is released in a step of w alone and is one of the two w was given;
\* an endpoint or pipe_t handle of the constructing thread is released in a
\* step that moves no existing worker
C15_ReleaseStep ==
    /\ \A e \in 1 .. Len(eps) :
          (eps[e].live /\ ~eps'[e].live) =>
              IF eps[e].owner = Caller
              THEN SubSeq(workers', 1, Len(workers)) = workers
              ELSE /\ e \in {workers[eps[e].owner].in, workers[eps[e].owner].out}
                   /\ workers'[eps[e].owner].pc # workers[eps[e].owner].pc
                   /\ \A u \in 1 .. Len(workers) :
                         u # eps[e].owner => workers'[u] = workers[u]
    /\ \A q \in 1 .. Len(queues) :
          (queues[q].handle /\ ~queues'[q].handle) =>
              SubSeq(workers', 1, Len(workers)) = workers

\* C15: the two reference counts of every queue equal the references
\* outstanding on it, so a queue is deallocated (both counts 0) only when its
\* pipe_t handle and every endpoint made from it have been released, and no
\* live endpoint refers to a deallocated queue, whenever the builders call
\* pipe_free; every endpoint owned by a worker is one of the two it was given,
\* and each thread releases only what it owns.
C15_QueueOutlivesEndpoints ==
    /\ [](\A q \in 1 .. Len(queues) :
              /\ queues[q].prod = Outstanding(q, "prod")
              /\ queues[q].cons = Outstanding(q, "cons")
              /\ Deallocated(q) =>
                    /\ ~queues[q].handle
                    /\ LiveEps(q, "prod") = {} /\ LiveEps(q, "cons") = {})
    /\ [](\A e \in 1 .. Len(eps) :
              /\ eps[e].live => ~Deallocated(eps[e].q)
              /\ eps[e].owner # Caller =>
                    e \in {workers[eps[e].owner].in, workers[eps[e].owner].out})
    /\ [][C15_ReleaseStep]_vars

\* the builder has freed the pipe_t handle of a queue that a worker still
\* writes and another still reads, and elsewhere a queue is deallocated
C15_Witness ==
    /\ bpc = "done"
    /\ \E q \in 1 .. Len(queues) :
          /\ ~queues[q].handle
          /\ \E w1, w2 \in 1 .. Len(workers) :
                /\ workers[w1].out \in LiveEps(q, "prod")
                /\ workers[w2].in \in LiveEps(q, "cons")
    /\ \E q \in 1 .. Len(queues) : Deallocated(q)

\* C16: pipe_pipeline starts one worker per descriptor, in order, each with its
\* descriptor's function and aux: when it returns from k descriptors, none of
\* size 0, there are exactly k workers. With a registry and every growth so
\* far successful, the registry is the handles it held beforehand, at their
\* positions, followed by the handles of the workers in the order of their
\* descriptors, and the count is the earlier count plus the number of workers.
C16_NoSink == \A i \in 1 .. Len(descs) : descs[i].size # 0

C16_HandlesInStageOrder ==
    mode = "pipeline" =>
        /\ \A i \in 1 .. Len(workers) :
              workers[i].aux = descs[i].aux /\ workers[i].proc = descs[i].proc
        /\ (bpc \in {"ret", "done", "crashed"} /\ C16_NoSink) =>
              Len(workers) = Len(descs)
        /\ (C12_Registry /\ grown = Len(workers)) =>
              /\ count = prior + Len(workers)
              /\ handles.arr = PriorHandles(prior) \o [i \in 1 .. Len(workers) |-> i]

\* pipe_pipeline has returned from MaxStages descriptors with a registry that
\* held a handle beforehand, every growth having succeeded
C16_Witness ==
    /\ mode = "pipeline" /\ C12_Registry /\ bpc = "done" /\ C16_NoSink
    /\ Len(descs) = MaxStages /\ grown = MaxStages /\ prior = 1
    /\ count = MaxStages + 1 /\ Len(handles.arr) = MaxStages + 1

\* C17: when pipe_parallel has returned for N instances and neither the caller
\* nor a worker has released an endpoint, there are exactly N workers; the
\* input queue has exactly one producer reference, the live endpoint returned
\* to the caller, and exactly N consumer references, the N distinct live
\* endpoints held by one worker each; the output queue has exactly N producer
\* references, one distinct live endpoint per worker, and exactly one consumer
\* reference, the live endpoint returned to the caller.
C17_JustBuilt ==
    /\ mode = "parallel" /\ bpc = "done"
    /\ Live(ret.in) /\ Live(ret.out)
    /\ \A w \in 1 .. Len(workers) : workers[w].pc \in {"pop", "proc"}

C17_FanOutReferences ==
    C17_JustBuilt =>
        /\ Len(workers) = count /\ Len(queues) = ParOut
        /\ LiveEps(ParIn, "prod") = {ret.in} /\ queues[ParIn].prod = 1
        /\ LiveEps(ParIn, "cons") = {workers[w].in : w \in 1 .. count}
        /\ Cardinality(LiveEps(ParIn, "cons")) = count /\ queues[ParIn].cons = count
        /\ LiveEps(ParOut, "prod") = {workers[w].out : w \in 1 .. count}
        /\ Cardinality(LiveEps(ParOut, "prod")) = count /\ queues[ParOut].prod = count
        /\ LiveEps(ParOut, "cons") = {ret.out} /\ queues[ParOut].cons = 1
        /\ \A w \in 1 .. count :
              eps[workers[w].in].owner = w /\ eps[workers[w].out].owner = w

\* pipe_parallel has just returned for MaxInstances instances, all of them
\* waiting at pipe_pop
C17_Witness ==
    /\ C17_JustBuilt /\ count = MaxInstances /\ Len(workers) = MaxInstances
    /\ \A w \in 1 .. Len(workers) : workers[w].pc = "pop" /\ workers[w].call = NoCall
    /\ toPush = input /\ hf.pc = "idle"

\* the endpoints worker w was given
Given(w) == {workers[w].in, workers[w].out}

\* in one step: an endpoint handed to a worker stays that worker's, a released
\* endpoint stays released, a worker's endpoint is released only in a step of
\* that worker, and the constructing thread's only in a step that moves no
\* existing worker
C18_OwnerStep ==
    \A e \in 1 .. Len(eps) :
        /\ eps[e].owner # Caller => eps'[e].owner = eps[e].owner
        /\ ~eps[e].live => ~eps'[e].live
        /\ (eps[e].live /\ ~eps'[e].live) =>
              IF eps[e].owner = Caller
              THEN SubSeq(workers', 1, Len(workers)) = workers
              ELSE workers'[eps[e].owner].pc # workers[eps[e].owner].pc

\* C18: no two workers are given the same endpoint and every worker is the
\* owner of the two it was given; the endpoints the constructing thread goes
\* on to use (the producer and consumer end of the pipeline so far, the latter
\* being what a size-0 descriptor releases) are its own, never one it handed
\* to a worker, and live while it builds; a worker's endpoints are live as
\* long as it uses them and released once it is past their release; and every
\* release is made once, by the owner.
C18_SingleOwner ==
    /\ [](\A w1, w2 \in 1 .. Len(workers) :
              /\ workers[w1].in # workers[w1].out
              /\ w1 # w2 => Given(w1) \cap Given(w2) = {}
              /\ \A e \in Given(w1) : eps[e].owner = w1)
    /\ [](\A e \in {ret.in, ret.out} \ {NULL} :
              /\ eps[e].owner = Caller
              /\ bpc \in {"va", "ret"} => eps[e].live)
    /\ [](\A w \in 1 .. Len(workers) :
              /\ eps[workers[w].in].live <=> workers[w].pc \in {"pop", "proc", "eos"}
              /\ eps[workers[w].out].live <=>
                    workers[w].pc \in {"pop", "proc", "eos", "free_out"})
    /\ [][C18_OwnerStep]_vars

\* a pipeline ended by a size-0 descriptor after MaxStages - 1 stages: the
\* constructing thread released the consumer endpoint it had made last, its
\* own, while the worker before it still holds its two
C18_Witness ==
    /\ mode = "pipeline" /\ bpc = "done" /\ ret.out = NULL
    /\ Len(workers) = MaxStages - 1 /\ Len(workers) >= 1
    /\ \E e \in 1 .. Len(eps) :
          /\ eps[e].kind = "cons" /\ eps[e].q = Len(queues)
          /\ eps[e].owner = Caller /\ ~eps[e].live
    /\ \A e \in Given(Len(workers)) : eps[e].live

\* the workers that write queue q
Writers(q) == {u \in 1 .. Len(workers) : eps[workers[u].out].q = q}

\* queue q has been seen closed: a pop on it returned 0 to a worker, which then
\* left its loop, or to the caller
SeenClosed(q) ==
    \/ \E w \in 1 .. Len(workers) :
          eps[workers[w].in].q = q /\ workers[w].pc \in {"eos", "free_out", "done"}
    \/ callerEos /\ ret.out # NULL /\ eps[ret.out].q = q

\* C19: when a pop on a queue has returned 0, every worker writing that queue
\* has made its end-of-stream call, released its producer endpoint and
\* returned; and while any worker still holds its producer endpoint of a queue,
\* another writer of it having finished or not, the queue keeps a producer
\* reference and no pop on it can return 0.
C19_NoEarlyEndOfStream ==
    \A q \in 1 .. Len(queues) :
        /\ SeenClosed(q) =>
              \A u \in Writers(q) :
                  /\ workers[u].pc = "done" /\ workers[u].eosCalls = 1
                  /\ ~eps[workers[u].out].live
        /\ (\E u \in Writers(q) : workers[u].pc # "done") =>
              /\ queues[q].prod >= 1
              /\ \A e \in 1 .. Len(eps) :
                    (eps[e].q = q /\ eps[e].kind = "cons") =>
                        0 \notin PopOutcomes(Heap, e, DEFAULT_BUFFER_SIZE)

\* fan-in: one instance has terminated, another still holds its producer
\* endpoint, the output queue is empty and the caller's pop waits
C19_Witness ==
    /\ mode = "parallel" /\ bpc = "done" /\ Len(workers) = MaxInstances
    /\ \E w1, w2 \in 1 .. Len(workers) :
          /\ Terminated(w1) /\ workers[w1].call.aux = NULL
          /\ workers[w2].pc = "free_out" /\ eps[workers[w2].out].live
    /\ queues[ParOut].buf = <<>> /\ Live(ret.out)
    /\ ~callerEos /\ ~ENABLED CallerPop

\* C20: once the producer endpoint of a chain's or a fan-out group's input is
\* released, every worker terminates, and a pipe_handles_free that is joining
\* the registry returns, though the caller never pops from the final consumer
\* endpoint, whether it still holds or has released it, and also when the
\* chain ends in a size-0 descriptor.
C20_InputClosed == bpc = "done" /\ ret.in # NULL /\ ~Live(ret.in)

C20_WorkersDrainUnread ==
    /\ C20_InputClosed ~> (\A w \in 1 .. Len(workers) : Terminated(w))
    /\ (C20_InputClosed /\ hf.pc = "loop") ~> hf.pc = "returned"

\* on pthreads the caller pushed its input into MaxWorkers workers, closed it
\* and never popped; all workers have terminated and pipe_handles_free has
\* joined them and returned
C20_Witness ==
    /\ C20_InputClosed /\ platform = "pthreads"
    /\ Len(workers) = MaxWorkers /\ \A w \in 1 .. Len(workers) : Terminated(w)
    /\ Len(input) = MaxInput /\ received = <<>> /\ ~callerEos /\ Live(ret.out)
    /\ Len(QueueOf(ret.out).buf) = MaxInput
    /\ hf.pc = "returned" /\ hf.i = MaxWorkers

====
